---- MODULE Spec2Model ----
(***************************************************************************)
(* Build and lint tooling configuration of a React single-page             *)
(* application: vite.config.ts, .eslintrc.json and the configuration       *)
(* listings of README.md (tsconfig.json, tsconfig.node.json,               *)
(* tsconfig.app.json, the npm scripts), together with the steps of the     *)
(* tools that consume them: the bundler and the type-checker loading       *)
(* their alias maps, the linter loading its rules, the npm scripts running *)
(* their command lists, and the type-checker compiling the application     *)
(* project.                                                                *)
(***************************************************************************)
EXTENDS Integers, Sequences, FiniteSets, TLC

\* how many npm scripts may be run in one behaviour
MaxRuns == 2

(***************************************************************************)
(* Strings                                                                 *)
(***************************************************************************)

StartsWith(s, p) == Len(s) >= Len(p) /\ SubSeq(s, 1, Len(p)) = p

EndsWith(s, p) == Len(s) >= Len(p) /\ SubSeq(s, Len(s) - Len(p) + 1, Len(s)) = p

\* least i >= from with sep at position i of s, 0 when there is none
RECURSIVE IndexOf(_, _, _)
IndexOf(s, sep, from) ==
  IF from + Len(sep) - 1 > Len(s) THEN 0
  ELSE IF SubSeq(s, from, from + Len(sep) - 1) = sep THEN from
  ELSE IndexOf(s, sep, from + 1)

\* greatest i with sep at position i of s, 0 when there is none
RECURSIVE LastIndexOf(_, _, _)
LastIndexOf(s, sep, from) ==
  IF from < 1 THEN 0
  ELSE IF from + Len(sep) - 1 <= Len(s) /\ SubSeq(s, from, from + Len(sep) - 1) = sep THEN from
  ELSE LastIndexOf(s, sep, from - 1)

RECURSIVE Split(_, _)
Split(s, sep) ==
  LET i == IndexOf(s, sep, 1)
  IN  IF i = 0 THEN <<s>>
      ELSE <<SubSeq(s, 1, i - 1)>> \o Split(SubSeq(s, i + Len(sep), Len(s)), sep)

RECURSIVE Join(_, _)
Join(parts, sep) ==
  IF parts = <<>> THEN ""
  ELSE IF Len(parts) = 1 THEN parts[1]
  ELSE parts[1] \o sep \o Join(Tail(parts), sep)

Range(f) == {f[i] : i \in DOMAIN f}

(***************************************************************************)
(* Paths                                                                   *)
(***************************************************************************)

\* drops empty and "." segments, lets ".." remove the segment before it
RECURSIVE NormalizeSegments(_, _)
NormalizeSegments(segs, acc) ==
  IF segs = <<>> THEN acc
  ELSE IF Head(segs) = "" \/ Head(segs) = "." THEN NormalizeSegments(Tail(segs), acc)
  ELSE IF Head(segs) = ".."
       THEN NormalizeSegments(Tail(segs),
                              IF acc = <<>> THEN acc ELSE SubSeq(acc, 1, Len(acc) - 1))
  ELSE NormalizeSegments(Tail(segs), Append(acc, Head(segs)))

\* path.resolve(from, to) of two arguments, from absolute
PathResolve(from, to) ==
  LET joined == IF StartsWith(to, "/") THEN to ELSE from \o "/" \o to
  IN  "/" \o Join(NormalizeSegments(Split(joined, "/"), <<>>), "/")

\* path.extname of a file path: from the last "." of the base name, ""
\* when the base name has no "." or only a leading one
ExtName(file) ==
  LET slash == LastIndexOf(file, "/", Len(file))
      base  == SubSeq(file, slash + 1, Len(file))
      dot   == LastIndexOf(base, ".", Len(base))
  IN  IF dot <= 1 THEN "" ELSE SubSeq(base, dot, Len(base))

(***************************************************************************)
(* vite.config.ts                                                          *)
(***************************************************************************)

\* resolve.alias, in declaration order: key and the argument of path.resolve
ViteAlias_NoStore ==
  << [find |-> "@UI",            target |-> "./src/shared/UI"],
     [find |-> "@services",      target |-> "./src/app/api/services"],
     [find |-> "@servicesTypes", target |-> "./src/app/api/types"],
     [find |-> "@constants",     target |-> "./src/app/constants"],
     [find |-> "@app",           target |-> "./src/app"],
     [find |-> "@assets",        target |-> "./src/assets"],
     [find |-> "@components",    target |-> "./src/components"],
     [find |-> "@shadecn",       target |-> "./src/shadecn"],
     [find |-> "@hooks",         target |-> "./src/hooks"],
     [find |-> "@",              target |-> "./src"] >>

ViteAlias_ServicesMoved ==
  << [find |-> "@UI",            target |-> "./src/shared/UI"],
     [find |-> "@services",      target |-> "./src/app/services"],
     [find |-> "@servicesTypes", target |-> "./src/app/api/types"],
     [find |-> "@constants",     target |-> "./src/app/constants"],
     [find |-> "@app",           target |-> "./src/app"],
     [find |-> "@assets",        target |-> "./src/assets"],
     [find |-> "@components",    target |-> "./src/components"],
     [find |-> "@shadecn",       target |-> "./src/shadecn"],
     [find |-> "@hooks",         target |-> "./src/hooks"],
     [find |-> "@store",         target |-> "./src/store"],
     [find |-> "@",              target |-> "./src"] >>

ViteAlias ==
  << [find |-> "@UI",            target |-> "./src/shared/UI"],
     [find |-> "@services",      target |-> "./src/app/api/services"],
     [find |-> "@servicesTypes", target |-> "./src/app/api/types"],
     [find |-> "@constants",     target |-> "./src/app/constants"],
     [find |-> "@app",           target |-> "./src/app"],
     [find |-> "@assets",        target |-> "./src/assets"],
     [find |-> "@components",    target |-> "./src/components"],
     [find |-> "@shadecn",       target |-> "./src/shadecn"],
     [find |-> "@hooks",         target |-> "./src/hooks"],
     [find |-> "@store",         target |-> "./src/store"],
     [find |-> "@",              target |-> "./src"] >>

VitePlugins_None == << >>

\* plugins: [react()]
VitePlugins == << "react" >>

\* the object handed to defineConfig, evaluated with __dirname = dir
DefineConfig(dir) ==
  [ alias   |-> [i \in DOMAIN ViteAlias |->
                   [find        |-> ViteAlias[i].find,
                    replacement |-> PathResolve(dir, ViteAlias[i].target)]],
    plugins |-> VitePlugins ]

(***************************************************************************)
(* README.md: the Vite configuration listing                               *)
(***************************************************************************)

ReadmeViteAlias ==
  << [find |-> "@UI",            target |-> "./src/shared/UI"],
     [find |-> "@services",      target |-> "./src/app/api/services"],
     [find |-> "@servicesTypes", target |-> "./src/app/api/types"],
     [find |-> "@constants",     target |-> "./src/app/constants"],
     [find |-> "@app",           target |-> "./src/app"],
     [find |-> "@assets",        target |-> "./src/assets"],
     [find |-> "@components",    target |-> "./src/components"],
     [find |-> "@shadecn",       target |-> "./src/shadecn"],
     [find |-> "@hooks",         target |-> "./src/hooks"],
     [find |-> "@store",         target |-> "./src/store"],
     [find |-> "@",              target |-> "./src"] >>

ReadmeVitePlugins == << "react" >>

\* the directories the README's explanation of resolve.alias names
ReadmeAliasExamples ==
  << [find |-> "@UI",         target |-> "./src/shared/UI"],
     [find |-> "@services",   target |-> "./src/app/api/services"],
     [find |-> "@components", target |-> "./src/components"] >>

(***************************************************************************)
(* README.md: tsconfig.json                                                *)
(***************************************************************************)

TsconfigBaseUrl == "./"

\* compilerOptions.paths, in declaration order
TsconfigPaths ==
  << [pattern |-> "@UI/*",            targets |-> << "src/shared/UI/*" >>],
     [pattern |-> "@services/*",      targets |-> << "src/app/api/services/*" >>],
     [pattern |-> "@servicesTypes/*", targets |-> << "src/app/api/types/*" >>],
     [pattern |-> "@constants/*",     targets |-> << "src/app/constants/*" >>],
     [pattern |-> "@app/*",           targets |-> << "src/app/*" >>],
     [pattern |-> "@store/*",         targets |-> << "src/store/*" >>],
     [pattern |-> "@shadecn/*",       targets |-> << "src/shadecn/*" >>],
     [pattern |-> "@components/*",    targets |-> << "src/components/*" >>],
     [pattern |-> "@assets/*",        targets |-> << "src/assets/*" >>],
     [pattern |-> "@hooks",           targets |-> << "src/hooks" >>],
     [pattern |-> "@/*",              targets |-> << "src/*" >>] >>

\* a paths key or target with its trailing "/*" removed
StripWildcard(p) == IF EndsWith(p, "/*") THEN SubSeq(p, 1, Len(p) - 2) ELSE p

\* the paths of tsconfig.json as the type-checker holds them once the file
\* in directory dir is read: baseUrl made absolute, each target joined to it
ReadTsconfig(dir) ==
  LET base == PathResolve(dir, TsconfigBaseUrl)
  IN  [ baseUrl |-> base,
        paths   |-> [i \in DOMAIN TsconfigPaths |->
                       [pattern |-> TsconfigPaths[i].pattern,
                        targets |-> TsconfigPaths[i].targets,
                        prefix  |-> StripWildcard(TsconfigPaths[i].pattern),
                        dirs    |-> [j \in DOMAIN TsconfigPaths[i].targets |->
                                       PathResolve(base,
                                         StripWildcard(TsconfigPaths[i].targets[j]))]]] ]

(***************************************************************************)
(* .eslintrc.json                                                          *)
(***************************************************************************)

\* env
EslintEnv == << [key |-> "browser", value |-> TRUE],
                [key |-> "es6", value |-> TRUE],
                [key |-> "node", value |-> TRUE] >>

EslintExtends_WithA11y ==
  << "eslint:recommended",
     "plugin:react/recommended",
     "plugin:react-hooks/recommended",
     "plugin:jsx-a11y/recommended",
     "plugin:@typescript-eslint/eslint-recommended",
     "plugin:@typescript-eslint/recommended",
     "plugin:import/warnings",
     "plugin:import/typescript",
     "prettier" >>

\* extends, in declaration order
EslintExtends ==
  << "eslint:recommended",
     "plugin:react/recommended",
     "plugin:react-hooks/recommended",
     "plugin:@typescript-eslint/eslint-recommended",
     "plugin:@typescript-eslint/recommended",
     "plugin:import/warnings",
     "plugin:import/typescript",
     "prettier" >>

EslintParser == "@typescript-eslint/parser"

\* parserOptions; ecmaFeatures is the nested object
EslintParserOptions ==
  [ ecmaVersion  |-> "latest",
    sourceType   |-> "module",
    ecmaFeatures |-> << [key |-> "jsx", value |-> TRUE] >> ]

EslintPlugins_NoRefresh ==
  << "react", "react-hooks", "import", "@typescript-eslint", "prettier" >>

\* plugins
EslintPlugins ==
  << "react", "react-refresh", "react-hooks", "import", "@typescript-eslint", "prettier" >>

EslintRules_HooksWarn ==
  << [name |-> "react/jsx-key", severity |-> "warn",
      options |-> << >>],
     [name |-> "react/prop-types", severity |-> "off",
      options |-> << >>],
     [name |-> "react/display-name", severity |-> "warn",
      options |-> << >>],
     [name |-> "react/no-children-prop", severity |-> "warn",
      options |-> << >>],
     [name |-> "react/react-in-jsx-scope", severity |-> "off",
      options |-> << >>],
     [name |-> "react/button-has-type", severity |-> "warn",
      options |-> << >>],
     [name |-> "react-hooks/exhaustive-deps", severity |-> "off",
      options |-> << >>],
     [name |-> "react-hooks/rules-of-hooks", severity |-> "warn",
      options |-> << >>],
     [name |-> "@typescript-eslint/no-unused-vars", severity |-> "warn",
      options |-> << >>],
     [name |-> "no-case-declarations", severity |-> "warn",
      options |-> << >>],
     [name |-> "no-console", severity |-> "warn",
      options |-> << >>],
     [name |-> "react-refresh/only-export-components", severity |-> "warn",
      options |-> << >>],
     [name |-> "@typescript-eslint/explicit-function-return-type", severity |-> "off",
      options |-> << >>],
     [name |-> "@typescript-eslint/no-explicit-any", severity |-> "warn",
      options |-> << >>],
     [name |-> "no-unsafe-optional-chaining", severity |-> "warn",
      options |-> << >>],
     [name |-> "import/order", severity |-> "error",
      options |-> << [key |-> "groups", value |-> << "builtin", "external", "internal", "parent", "sibling" >>] >>],
     [name |-> "prettier/prettier", severity |-> "warn",
      options |-> << [key |-> "endOfLine", value |-> << "auto" >>] >>] >>

\* rules, in declaration order; "sev" and ["sev", options] are both held as
\* severity plus the options object (its keys and their values)
EslintRules ==
  << [name |-> "react/jsx-key", severity |-> "warn",
      options |-> << >>],
     [name |-> "react/prop-types", severity |-> "off",
      options |-> << >>],
     [name |-> "react/display-name", severity |-> "warn",
      options |-> << >>],
     [name |-> "react/no-children-prop", severity |-> "warn",
      options |-> << >>],
     [name |-> "react/react-in-jsx-scope", severity |-> "off",
      options |-> << >>],
     [name |-> "react/button-has-type", severity |-> "warn",
      options |-> << >>],
     [name |-> "react-hooks/exhaustive-deps", severity |-> "off",
      options |-> << >>],
     [name |-> "react-hooks/rules-of-hooks", severity |-> "error",
      options |-> << >>],
     [name |-> "@typescript-eslint/no-unused-vars", severity |-> "warn",
      options |-> << >>],
     [name |-> "no-case-declarations", severity |-> "warn",
      options |-> << >>],
     [name |-> "no-console", severity |-> "warn",
      options |-> << >>],
     [name |-> "react-refresh/only-export-components", severity |-> "warn",
      options |-> << >>],
     [name |-> "@typescript-eslint/explicit-function-return-type", severity |-> "off",
      options |-> << >>],
     [name |-> "@typescript-eslint/no-explicit-any", severity |-> "warn",
      options |-> << >>],
     [name |-> "no-unsafe-optional-chaining", severity |-> "warn",
      options |-> << >>],
     [name |-> "import/order", severity |-> "error",
      options |-> << [key |-> "groups", value |-> << "builtin", "external", "internal", "parent", "sibling" >>] >>],
     [name |-> "prettier/prettier", severity |-> "warn",
      options |-> << [key |-> "endOfLine", value |-> << "auto" >>] >>] >>

\* settings
EslintSettings ==
  [ reactVersion       |-> "detect",
    resolverExtensions |-> << ".js", ".jsx", ".ts", ".tsx" >> ]

(***************************************************************************)
(* README.md: the ESLint configuration listing, first copy                 *)
(***************************************************************************)

\* env
ReadmeFirstEnv == << [key |-> "browser", value |-> TRUE],
                     [key |-> "es6", value |-> TRUE],
                     [key |-> "node", value |-> TRUE] >>

\* extends, in declaration order
ReadmeFirstExtends ==
  << "eslint:recommended",
     "plugin:react/recommended",
     "plugin:react-hooks/recommended",
     "plugin:@typescript-eslint/eslint-recommended",
     "plugin:@typescript-eslint/recommended",
     "plugin:import/warnings",
     "plugin:import/typescript",
     "prettier" >>

ReadmeFirstParser == "@typescript-eslint/parser"

\* parserOptions; ecmaFeatures is the nested object
ReadmeFirstParserOptions ==
  [ ecmaVersion  |-> "latest",
    sourceType   |-> "module",
    ecmaFeatures |-> << [key |-> "jsx", value |-> TRUE] >> ]

\* plugins
ReadmeFirstPlugins ==
  << "react", "react-refresh", "react-hooks", "import", "@typescript-eslint", "prettier" >>

\* rules, in declaration order; "sev" and ["sev", options] are both held as
\* severity plus the options object (its keys and their values)
ReadmeFirstRules ==
  << [name |-> "react/jsx-key", severity |-> "warn",
      options |-> << >>],
     [name |-> "react/prop-types", severity |-> "off",
      options |-> << >>],
     [name |-> "react/display-name", severity |-> "warn",
      options |-> << >>],
     [name |-> "react/no-children-prop", severity |-> "warn",
      options |-> << >>],
     [name |-> "react/react-in-jsx-scope", severity |-> "off",
      options |-> << >>],
     [name |-> "react/button-has-type", severity |-> "warn",
      options |-> << >>],
     [name |-> "react-hooks/exhaustive-deps", severity |-> "off",
      options |-> << >>],
     [name |-> "react-hooks/rules-of-hooks", severity |-> "error",
      options |-> << >>],
     [name |-> "@typescript-eslint/no-unused-vars", severity |-> "warn",
      options |-> << >>],
     [name |-> "no-case-declarations", severity |-> "warn",
      options |-> << >>],
     [name |-> "no-console", severity |-> "warn",
      options |-> << >>],
     [name |-> "react-refresh/only-export-components", severity |-> "warn",
      options |-> << >>],
     [name |-> "@typescript-eslint/explicit-function-return-type", severity |-> "off",
      options |-> << >>],
     [name |-> "@typescript-eslint/no-explicit-any", severity |-> "warn",
      options |-> << >>],
     [name |-> "no-unsafe-optional-chaining", severity |-> "warn",
      options |-> << >>],
     [name |-> "import/order", severity |-> "error",
      options |-> << [key |-> "groups", value |-> << "builtin", "external", "internal", "parent", "sibling" >>] >>],
     [name |-> "prettier/prettier", severity |-> "warn",
      options |-> << [key |-> "endOfLine", value |-> << "auto" >>] >>] >>

\* settings
ReadmeFirstSettings ==
  [ reactVersion       |-> "detect",
    resolverExtensions |-> << ".js", ".jsx", ".ts", ".tsx" >> ]

(***************************************************************************)
(* README.md: the ESLint configuration listing, second copy                *)
(***************************************************************************)

\* env
ReadmeSecondEnv == << [key |-> "browser", value |-> TRUE],
                      [key |-> "es6", value |-> TRUE],
                      [key |-> "node", value |-> TRUE] >>

\* extends, in declaration order
ReadmeSecondExtends ==
  << "eslint:recommended",
     "plugin:react/recommended",
     "plugin:react-hooks/recommended",
     "plugin:@typescript-eslint/eslint-recommended",
     "plugin:@typescript-eslint/recommended",
     "plugin:import/warnings",
     "plugin:import/typescript",
     "prettier" >>

ReadmeSecondParser == "@typescript-eslint/parser"

\* parserOptions; ecmaFeatures is the nested object
ReadmeSecondParserOptions ==
  [ ecmaVersion  |-> "latest",
    sourceType   |-> "module",
    ecmaFeatures |-> << [key |-> "jsx", value |-> TRUE] >> ]

\* plugins
ReadmeSecondPlugins ==
  << "react", "react-refresh", "react-hooks", "import", "@typescript-eslint", "prettier" >>

\* rules, in declaration order; "sev" and ["sev", options] are both held as
\* severity plus the options object (its keys and their values)
ReadmeSecondRules ==
  << [name |-> "react/jsx-key", severity |-> "warn",
      options |-> << >>],
     [name |-> "react/prop-types", severity |-> "off",
      options |-> << >>],
     [name |-> "react/display-name", severity |-> "warn",
      options |-> << >>],
     [name |-> "react/no-children-prop", severity |-> "warn",
      options |-> << >>],
     [name |-> "react/react-in-jsx-scope", severity |-> "off",
      options |-> << >>],
     [name |-> "react/button-has-type", severity |-> "warn",
      options |-> << >>],
     [name |-> "react-hooks/exhaustive-deps", severity |-> "off",
      options |-> << >>],
     [name |-> "react-hooks/rules-of-hooks", severity |-> "error",
      options |-> << >>],
     [name |-> "@typescript-eslint/no-unused-vars", severity |-> "warn",
      options |-> << >>],
     [name |-> "no-case-declarations", severity |-> "warn",
      options |-> << >>],
     [name |-> "no-console", severity |-> "warn",
      options |-> << >>],
     [name |-> "react-refresh/only-export-components", severity |-> "warn",
      options |-> << >>],
     [name |-> "@typescript-eslint/explicit-function-return-type", severity |-> "off",
      options |-> << >>],
     [name |-> "@typescript-eslint/no-explicit-any", severity |-> "warn",
      options |-> << >>],
     [name |-> "no-unsafe-optional-chaining", severity |-> "warn",
      options |-> << >>],
     [name |-> "import/order", severity |-> "error",
      options |-> << [key |-> "groups", value |-> << "builtin", "external", "internal", "parent", "sibling" >>] >>],
     [name |-> "prettier/prettier", severity |-> "warn",
      options |-> << [key |-> "endOfLine", value |-> << "auto" >>] >>] >>

\* settings
ReadmeSecondSettings ==
  [ reactVersion       |-> "detect",
    resolverExtensions |-> << ".js", ".jsx", ".ts", ".tsx" >> ]

\* the whole configuration object
EslintRc ==
  [ env |-> EslintEnv, extends |-> EslintExtends, parser |-> EslintParser,
    parserOptions |-> EslintParserOptions, plugins |-> EslintPlugins,
    rules |-> EslintRules, settings |-> EslintSettings ]

ReadmeFirstEslint ==
  [ env |-> ReadmeFirstEnv, extends |-> ReadmeFirstExtends, parser |-> ReadmeFirstParser,
    parserOptions |-> ReadmeFirstParserOptions, plugins |-> ReadmeFirstPlugins,
    rules |-> ReadmeFirstRules, settings |-> ReadmeFirstSettings ]

ReadmeSecondEslint ==
  [ env |-> ReadmeSecondEnv, extends |-> ReadmeSecondExtends, parser |-> ReadmeSecondParser,
    parserOptions |-> ReadmeSecondParserOptions, plugins |-> ReadmeSecondPlugins,
    rules |-> ReadmeSecondRules, settings |-> ReadmeSecondSettings ]

\* the plugin a rule name belongs to: the text before its last "/", "" for
\* a rule of the linter's own
RulePlugin(name) ==
  LET i == LastIndexOf(name, "/", Len(name))
  IN  IF i = 0 THEN "" ELSE SubSeq(name, 1, i - 1)

(***************************************************************************)
(* README.md: tsconfig.app.json                                            *)
(***************************************************************************)

TsconfigAppNoEmit_False == FALSE

TsconfigAppNoEmit == TRUE

TsconfigAppAllowImportingTsExtensions_False == FALSE

TsconfigAppAllowImportingTsExtensions == TRUE

TsconfigAppInclude_WithViteConfig == << "src", "vite.config.ts" >>

TsconfigAppInclude == << "src" >>

\* the extensions the type-checker takes from an included directory
\* (allowJs is not set in tsconfig.app.json)
TsSourceExtensions == { ".ts", ".tsx" }

\* an include entry names the file itself or a directory above it
IncludeMatches(entry, file) ==
  \/ file = entry
  \/ StartsWith(file, entry \o "/") /\ ExtName(file) \in TsSourceExtensions

IsIncluded(include, file) == \E i \in DOMAIN include : IncludeMatches(include[i], file)

\* an import specifier that ends in a TypeScript extension is accepted only
\* under allowImportingTsExtensions
ImportAccepted(allow, specifier) ==
  \/ allow
  \/ ~ (EndsWith(specifier, ".ts") \/ EndsWith(specifier, ".tsx"))

\* the output file of a source file: its extension replaced by .js
OutputFile(file) ==
  SubSeq(file, 1, Len(file) - Len(ExtName(file))) \o ".js"

(***************************************************************************)
(* README.md: the npm scripts                                              *)
(***************************************************************************)

Scripts ==
  [ dev     |-> "vite --port=4000 --host",
    build   |-> "tsc -b && vite build",
    lint    |-> "eslint . --ext .js,.js,.jsx,.ts,.tsx",
    format  |-> "prettier-eslint --write \"src/**/*.{js,jsx,ts,tsx}\"",
    preview |-> "vite preview" ]

ScriptNames == DOMAIN Scripts

\* the commands of a script line, split at the shell's && operator
CommandList(line) == Split(line, " && ")

\* a && b: b runs exactly when a exited with status 0
RunsNext_Always(code) == TRUE

RunsNext(code) == code = 0

\* the program a command line starts
Tool(cmd) == Head(Split(cmd, " "))

\* the value of option opt of a command line: the argument after the first
\* opt, "" when opt is not given
OptionValue(cmd, opt) ==
  LET args == Split(cmd, " ")
      at   == { i \in 1..(Len(args) - 1) : args[i] = opt }
  IN  IF at = {} THEN ""
      ELSE args[(CHOOSE i \in at : \A j \in at : i <= j) + 1]

\* eslint --ext: the comma-separated list of extensions
LintExtensions_NoJsx(cmd) == Range(Split(OptionValue(cmd, "--ext"), ",")) \ { ".jsx" }

LintExtensions(cmd) == Range(Split(OptionValue(cmd, "--ext"), ","))

\* eslint <dir> --ext <list> checks the files of the directory whose name
\* ends in one of the extensions (at least one character before it)
LintChecks(cmd, file) ==
  \E e \in LintExtensions(cmd) : Len(file) > Len(e) /\ EndsWith(file, e)

(***************************************************************************)
(* Import resolution: the bundler's resolve.alias, the type-checker's paths *)
(***************************************************************************)

\* an alias key matches the specifier itself and every specifier below it
BundlerMatches_Prefix(key, specifier) == StartsWith(specifier, key)

BundlerMatches(key, specifier) ==
  specifier = key \/ StartsWith(specifier, key \o "/")

\* the first alias entry, in declaration order, whose key matches; the key is
\* replaced by the entry's directory; "" when no key matches
BundlerResolve(alias, specifier) ==
  LET hits == { i \in DOMAIN alias : BundlerMatches(alias[i].find, specifier) }
  IN  IF hits = {} THEN ""
      ELSE LET i == CHOOSE h \in hits : \A g \in hits : h <= g
           IN  alias[i].replacement
                 \o SubSeq(specifier, Len(alias[i].find) + 1, Len(specifier))

\* the text of a paths pattern before its "*" (the whole pattern when it has none)
PatternPrefix(pattern) ==
  LET star == IndexOf(pattern, "*", 1)
  IN  IF star = 0 THEN pattern ELSE SubSeq(pattern, 1, star - 1)

\* a pattern without "*" matches the equal specifier only; a pattern "P*"
\* matches the specifiers that start with P
CheckerMatches(pattern, specifier) ==
  IF IndexOf(pattern, "*", 1) = 0
  THEN specifier = pattern
  ELSE StartsWith(specifier, PatternPrefix(pattern))

\* a paths target with the text its pattern's "*" matched put for its own "*"
Substitute(target, matched) ==
  LET star == IndexOf(target, "*", 1)
  IN  IF star = 0 THEN target
      ELSE SubSeq(target, 1, star - 1) \o matched \o SubSeq(target, star + 1, Len(target))

\* the matching pattern with the longest prefix; its first target, with the
\* matched text substituted, joined to baseUrl; "" when no pattern matches
CheckerResolve(ts, specifier) ==
  LET hits == { i \in DOMAIN ts.paths : CheckerMatches(ts.paths[i].pattern, specifier) }
  IN  IF hits = {} THEN ""
      ELSE LET i == CHOOSE h \in hits :
                      \A g \in hits :
                         \/ Len(PatternPrefix(ts.paths[h].pattern))
                              > Len(PatternPrefix(ts.paths[g].pattern))
                         \/ /\ Len(PatternPrefix(ts.paths[h].pattern))
                                 = Len(PatternPrefix(ts.paths[g].pattern))
                            /\ h <= g
               matched == SubSeq(specifier, Len(PatternPrefix(ts.paths[i].pattern)) + 1,
                                 Len(specifier))
           IN  PathResolve(ts.baseUrl, Substitute(ts.paths[i].targets[1], matched))

\* the plugin a "plugin:P/<name>" entry of extends names, "" for other entries
ExtendsPlugin(entry) ==
  IF StartsWith(entry, "plugin:")
  THEN LET rest == SubSeq(entry, Len("plugin:") + 1, Len(entry))
           i    == LastIndexOf(rest, "/", Len(rest))
       IN  IF i = 0 THEN rest ELSE SubSeq(rest, 1, i - 1)
  ELSE ""

\* the last argument of a command line, without its quotes
LastArgument(cmd) ==
  LET args == Split(cmd, " ")
      last == args[Len(args)]
  IN  IF Len(last) >= 2 /\ StartsWith(last, "\"") /\ EndsWith(last, "\"")
      THEN SubSeq(last, 2, Len(last) - 1) ELSE last

\* the patterns a glob with one {a,b,...} group stands for
BraceExpand(glob) ==
  LET open  == IndexOf(glob, "{", 1)
      close == IndexOf(glob, "}", 1)
  IN  IF open = 0 \/ close < open THEN { glob }
      ELSE { SubSeq(glob, 1, open - 1) \o alt \o SubSeq(glob, close + 1, Len(glob)) :
               alt \in Range(Split(SubSeq(glob, open + 1, close - 1), ",")) }

\* prettier-eslint --write <glob>: the extensions of the files the glob names
FormatExtensions_NoTsx(cmd) ==
  { ExtName(g) : g \in BraceExpand(LastArgument(cmd)) } \ { ".tsx" }

FormatExtensions(cmd) == { ExtName(g) : g \in BraceExpand(LastArgument(cmd)) }

(***************************************************************************)
(* State                                                                   *)
(***************************************************************************)

VARIABLES
  dirname,       \* __dirname of vite.config.ts: the project root
  viteConfig,    \* the configuration the bundler loaded last
  tsconfig,      \* the baseUrl and paths the type-checker loaded last
  eslintConfig,  \* the configuration the linter loaded last
  running,       \* the npm script that is running, "" when none is
  cmds,          \* the command list of the running script
  step,          \* the position in cmds of the current command
  phase,         \* "ready": the command has not started, "running": it has
  log,           \* the commands started and exited in this run, in order
  exitCode,      \* the exit status of the last finished script, -1 before
  runs,          \* the number of scripts run so far
  lintFile,      \* the file the lint command looked at last, "" before
  lintChecked,   \* whether the lint command checked lintFile
  appFile,       \* the file offered last to a compilation under tsconfig.app.json
  appCompiled,   \* whether appFile was compiled
  appEmitted,    \* the output file generated for appFile, "" when none was
  appImport,     \* the import specifier appFile held
  appImportOk,   \* whether the import specifier was accepted
  importSpec,    \* the import specifier both tools resolved last, "" before
  bundlerPath,   \* the path the bundler resolved importSpec to, "" for none
  checkerPath    \* the path the type-checker resolved importSpec to, "" for none

vars == << dirname, viteConfig, tsconfig, eslintConfig, running, cmds, step, phase,
           log, exitCode, runs, lintFile, lintChecked,
           appFile, appCompiled, appEmitted, appImport, appImportOk,
           importSpec, bundlerPath, checkerPath >>

toolVars == << viteConfig, tsconfig, eslintConfig >>
lintVars == << lintFile, lintChecked >>
appVars  == << appFile, appCompiled, appEmitted, appImport, appImportOk >>
runVars  == << running, cmds, step, phase, log, exitCode, runs >>
importVars == << importSpec, bundlerPath, checkerPath >>

\* project roots
Dirnames == { "/app", "/home/dev/web" }

\* files of the code base, relative to the project root
ProjectFiles ==
  { "vite.config.ts", "package.json", "index.html",
    "src/main.tsx", "src/hooks/useAuth.ts", "src/vite-env.d.ts",
    "src/app/api/services/user.js", "src/shared/UI/Button.jsx",
    "src/index.css", "src/store/index.mjs" }

\* import specifiers of a source file
ImportSpecifiers ==
  { "./App", "./App.tsx", "./hooks/useAuth.ts", "./index.css", "../store/index.mjs",
    "@UI/Button", "react" }

\* exit statuses of a command
ExitCodes == { 0, 1 }

NoViteConfig == [ alias |-> << >>, plugins |-> << >> ]
NoTsconfig   == [ baseUrl |-> "", paths |-> << >> ]
NoEslintConfig ==
  [ env |-> << >>, extends |-> << >>, parser |-> "",
    parserOptions |-> [ ecmaVersion |-> "", sourceType |-> "", ecmaFeatures |-> << >> ],
    plugins |-> << >>, rules |-> << >>,
    settings |-> [ reactVersion |-> "", resolverExtensions |-> << >> ] ]

Init ==
  /\ dirname \in Dirnames
  /\ viteConfig = NoViteConfig
  /\ tsconfig = NoTsconfig
  /\ eslintConfig = NoEslintConfig
  /\ running = ""
  /\ cmds = << >>
  /\ step = 0
  /\ phase = "ready"
  /\ log = << >>
  /\ exitCode = -1
  /\ runs = 0
  /\ lintFile = ""
  /\ lintChecked = FALSE
  /\ appFile = ""
  /\ appCompiled = FALSE
  /\ appEmitted = ""
  /\ appImport = ""
  /\ appImportOk = FALSE
  /\ importSpec = ""
  /\ bundlerPath = ""
  /\ checkerPath = ""

(***************************************************************************)
(* The npm scripts                                                         *)
(***************************************************************************)

\* npm run <name>
RunScript(name) ==
  /\ running = ""
  /\ runs < MaxRuns
  /\ running' = name
  /\ cmds' = CommandList(Scripts[name])
  /\ step' = 1
  /\ phase' = "ready"
  /\ log' = << >>
  /\ exitCode' = -1
  /\ runs' = runs + 1
  /\ UNCHANGED << dirname, importVars, toolVars, lintVars, appVars >>

\* the shell starts the current command; the tool reads its configuration
StartCommand ==
  /\ running # ""
  /\ phase = "ready"
  /\ phase' = "running"
  /\ log' = Append(log, [cmd |-> cmds[step], event |-> "start", code |-> 0])
  /\ viteConfig' = IF Tool(cmds[step]) = "vite" THEN DefineConfig(dirname) ELSE viteConfig
  /\ tsconfig' = IF Tool(cmds[step]) = "tsc" THEN ReadTsconfig(dirname) ELSE tsconfig
  /\ eslintConfig' = IF Tool(cmds[step]) \in { "eslint", "prettier-eslint" }
                     THEN EslintRc ELSE eslintConfig
  /\ UNCHANGED << dirname, importVars, running, cmds, step, exitCode, runs, lintVars, appVars >>

\* the lint command looks at a file of the code base
LintFile(file) ==
  /\ running # ""
  /\ phase = "running"
  /\ Tool(cmds[step]) = "eslint"
  /\ lintFile' = file
  /\ lintChecked' = LintChecks(cmds[step], file)
  /\ UNCHANGED << dirname, importVars, toolVars, runVars, appVars >>

\* the current command exits with status code; the shell goes on to the next
\* command of the && list or ends the script
ExitCommand(code) ==
  /\ running # ""
  /\ phase = "running"
  /\ log' = Append(log, [cmd |-> cmds[step], event |-> "exit", code |-> code])
  /\ IF RunsNext(code) /\ step < Len(cmds)
     THEN /\ step' = step + 1
          /\ phase' = "ready"
          /\ UNCHANGED << running, exitCode >>
     ELSE /\ running' = ""
          /\ exitCode' = code
          /\ phase' = "ready"
          /\ UNCHANGED step
  /\ UNCHANGED << dirname, importVars, toolVars, cmds, runs, lintVars, appVars >>

(***************************************************************************)
(* The type-checker under tsconfig.app.json                                *)
(***************************************************************************)

\* a file of the code base, holding one import, is offered to the compilation
CompileApp(file, specifier) ==
  /\ running = ""
  /\ appFile' = file
  /\ appCompiled' = IsIncluded(TsconfigAppInclude, file)
  /\ appImport' = specifier
  /\ appImportOk' = ImportAccepted(TsconfigAppAllowImportingTsExtensions, specifier)
  /\ appEmitted' = IF IsIncluded(TsconfigAppInclude, file) /\ ~ TsconfigAppNoEmit
                   THEN OutputFile(file) ELSE ""
  /\ UNCHANGED << dirname, importVars, toolVars, runVars, lintVars >>

Next ==
  \/ \E name \in ScriptNames : RunScript(name)
  \/ StartCommand
  \/ \E file \in ProjectFiles : LintFile(file)
  \/ \E code \in ExitCodes : ExitCommand(code)

Spec == Init /\ [][Next]_vars

\* compilations under tsconfig.app.json alone
NextApp ==
  \E file \in ProjectFiles, specifier \in ImportSpecifiers : CompileApp(file, specifier)

SpecApp == Init /\ [][NextApp]_vars

(***************************************************************************)
(* Resolving imports                                                       *)
(***************************************************************************)

\* how many segments the sub-path of an import specifier may have
MaxSubPathDepth == 2

\* segments of a sub-path
Segments == { "x", "y" }

\* "" and the sub-paths "/s1/.../sk" of at most n segments
RECURSIVE SubPaths(_)
SubPaths(n) ==
  IF n = 0 THEN { "" }
  ELSE SubPaths(n - 1) \cup { "/" \o seg \o rest : seg \in Segments, rest \in SubPaths(n - 1) }

\* what a specifier starts with: every alias key, and names that are no alias
SpecifierHeads ==
  { ViteAlias[i].find : i \in DOMAIN ViteAlias } \cup { "react", "@servicesX", "@vitejs" }

ImportedSpecifiers == { h \o t : h \in SpecifierHeads, t \in SubPaths(MaxSubPathDepth) }

\* a module imports specifier: the bundler and the type-checker resolve it,
\* each with the configuration it loaded
ResolveImport(specifier) ==
  /\ viteConfig # NoViteConfig
  /\ tsconfig # NoTsconfig
  /\ importSpec' = specifier
  /\ bundlerPath' = BundlerResolve(viteConfig.alias, specifier)
  /\ checkerPath' = CheckerResolve(tsconfig, specifier)
  /\ UNCHANGED << dirname, toolVars, runVars, lintVars, appVars >>

\* both tools have loaded their configuration
InitImports ==
  /\ dirname \in Dirnames
  /\ viteConfig = DefineConfig(dirname)
  /\ tsconfig = ReadTsconfig(dirname)
  /\ eslintConfig = NoEslintConfig
  /\ running = ""
  /\ cmds = << >>
  /\ step = 0
  /\ phase = "ready"
  /\ log = << >>
  /\ exitCode = -1
  /\ runs = 0
  /\ lintFile = ""
  /\ lintChecked = FALSE
  /\ appFile = ""
  /\ appCompiled = FALSE
  /\ appEmitted = ""
  /\ appImport = ""
  /\ appImportOk = FALSE
  /\ importSpec = ""
  /\ bundlerPath = ""
  /\ checkerPath = ""

NextImports == \E specifier \in ImportedSpecifiers : ResolveImport(specifier)

SpecImports == InitImports /\ [][NextImports]_vars

(***************************************************************************)
(* Properties                                                              *)
(***************************************************************************)

ViteLoaded   == viteConfig # NoViteConfig
TsLoaded     == tsconfig # NoTsconfig
EslintLoaded == eslintConfig # NoEslintConfig

\* the alias prefixes each tool holds
BundlerPrefixes == { viteConfig.alias[i].find : i \in DOMAIN viteConfig.alias }
CheckerPrefixes == { tsconfig.paths[i].prefix : i \in DOMAIN tsconfig.paths }

\* the directories each tool maps prefix k to
BundlerDirs(k) ==
  { viteConfig.alias[i].replacement :
      i \in { j \in DOMAIN viteConfig.alias : viteConfig.alias[j].find = k } }
CheckerDirs(k) ==
  UNION { Range(tsconfig.paths[i].dirs) :
            i \in { j \in DOMAIN tsconfig.paths : tsconfig.paths[j].prefix = k } }

\* C1: once the bundler has loaded vite.config.ts and the type-checker has
\* read tsconfig.json, the alias prefixes of resolve.alias are the eleven the
\* claim lists and are exactly the keys of paths with a trailing "/*" removed.
C1_AliasPrefixesInSync ==
  (ViteLoaded /\ TsLoaded) =>
     /\ BundlerPrefixes = { "@UI", "@services", "@servicesTypes", "@constants", "@app",
                            "@assets", "@components", "@shadecn", "@hooks", "@store", "@" }
     /\ \A k \in BundlerPrefixes : k \in CheckerPrefixes
     /\ \A k \in CheckerPrefixes : k \in BundlerPrefixes

C1_Witness ==
  /\ ViteLoaded /\ TsLoaded
  /\ Cardinality(BundlerPrefixes) = 11
  /\ "@hooks" \in CheckerPrefixes

\* C2: for every alias prefix both tools hold, the directory the bundler maps
\* it to (path.resolve of __dirname and the target) is the one directory the
\* type-checker maps it to (baseUrl joined with the paths target without its
\* "/*"); @UI, @services and @components map to src/shared/UI,
\* src/app/api/services and src/components under the project root in both.
C2_AliasDirectoriesAgree ==
  (ViteLoaded /\ TsLoaded) =>
     /\ \A k \in BundlerPrefixes \cap CheckerPrefixes :
          /\ Cardinality(BundlerDirs(k)) = 1
          /\ BundlerDirs(k) = CheckerDirs(k)
     /\ BundlerDirs("@UI") = { dirname \o "/src/shared/UI" }
     /\ CheckerDirs("@UI") = { dirname \o "/src/shared/UI" }
     /\ BundlerDirs("@services") = { dirname \o "/src/app/api/services" }
     /\ CheckerDirs("@services") = { dirname \o "/src/app/api/services" }
     /\ BundlerDirs("@components") = { dirname \o "/src/components" }
     /\ CheckerDirs("@components") = { dirname \o "/src/components" }

C2_Witness ==
  /\ ViteLoaded /\ TsLoaded
  /\ dirname = "/home/dev/web"
  /\ BundlerDirs("@hooks") = { "/home/dev/web/src/hooks" }
  /\ CheckerDirs("@") = { "/home/dev/web/src" }

\* the rule names of the loaded linter configuration
RuleNames == { eslintConfig.rules[i].name : i \in DOMAIN eslintConfig.rules }

\* C3: every rule of the loaded rules map is provided by a declared entry: a
\* rule named P/... has P in plugins (P being one of the six the claim
\* lists), a rule without prefix is one of the three the claim lists and
\* extends holds eslint:recommended.
C3_RulesHaveProviders ==
  EslintLoaded =>
     \A r \in RuleNames :
        IF RulePlugin(r) # ""
        THEN /\ RulePlugin(r) \in Range(eslintConfig.plugins)
             /\ RulePlugin(r) \in { "react", "react-hooks", "react-refresh",
                                    "@typescript-eslint", "import", "prettier" }
        ELSE /\ "eslint:recommended" \in Range(eslintConfig.extends)
             /\ r \in { "no-case-declarations", "no-console", "no-unsafe-optional-chaining" }

C3_Witness ==
  /\ EslintLoaded
  /\ "react-refresh/only-export-components" \in RuleNames
  /\ "@typescript-eslint/no-explicit-any" \in RuleNames
  /\ "no-console" \in RuleNames

\* positions of the log where command cmd started / exited
Starts(cmd) == { i \in DOMAIN log : log[i].cmd = cmd /\ log[i].event = "start" }
Exits(cmd)  == { i \in DOMAIN log : log[i].cmd = cmd /\ log[i].event = "exit" }

BuildRun == cmds = << "tsc -b", "vite build" >>

\* C4: in a run of the build script the first command started is tsc -b;
\* vite build starts only after tsc -b has exited with status 0; once tsc -b
\* has exited with another status, vite build has not started and the script
\* has ended with a status other than 0.
C4_TypeCheckBeforeBundle ==
  BuildRun =>
     /\ log # << >> => log[1] = [cmd |-> "tsc -b", event |-> "start", code |-> 0]
     /\ \A i \in Starts("vite build") :
          \E j \in Exits("tsc -b") : j < i /\ log[j].code = 0
     /\ \A j \in Exits("tsc -b") :
          log[j].code # 0 =>
             /\ Starts("vite build") = {}
             /\ running = ""
             /\ exitCode # 0

C4_Witness ==
  /\ BuildRun
  /\ Starts("vite build") # {}
  /\ running = ""
  /\ exitCode = 0

\* C5: a file the lint command looked at was checked exactly when its
\* extension is one of .js, .jsx, .ts, .tsx.
C5_LintChecksFourExtensions ==
  lintFile # "" =>
     (lintChecked <=> ExtName(lintFile) \in { ".js", ".jsx", ".ts", ".tsx" })

C5_Witness ==
  /\ lintFile = "src/shared/UI/Button.jsx"
  /\ lintChecked

\* the README's Vite listing evaluated with the same __dirname
ReadmeViteConfig ==
  [ alias   |-> [i \in DOMAIN ReadmeViteAlias |->
                   [find        |-> ReadmeViteAlias[i].find,
                    replacement |-> PathResolve(dirname, ReadmeViteAlias[i].target)]],
    plugins |-> ReadmeVitePlugins ]

\* C6: the configuration the bundler loaded from vite.config.ts has the
\* alias map (same keys, same targets) and the plugins list of the README's
\* Vite listing.
C6_ReadmeViteListingIsShipped ==
  ViteLoaded =>
     /\ Range(viteConfig.alias) = Range(ReadmeViteConfig.alias)
     /\ Len(viteConfig.alias) = Len(ReadmeViteConfig.alias)
     /\ viteConfig.plugins = ReadmeViteConfig.plugins

C6_Witness ==
  /\ ViteLoaded
  /\ viteConfig.plugins = << "react" >>
  /\ Len(viteConfig.alias) = 11

\* a linter configuration with its objects taken as maps (the order of keys
\* dropped) and its arrays as they stand
AsJson(c) ==
  [ env |-> Range(c.env), extends |-> c.extends, parser |-> c.parser,
    parserOptions |-> [ ecmaVersion  |-> c.parserOptions.ecmaVersion,
                        sourceType   |-> c.parserOptions.sourceType,
                        ecmaFeatures |-> Range(c.parserOptions.ecmaFeatures) ],
    plugins |-> c.plugins,
    rules |-> { [ name |-> c.rules[i].name, severity |-> c.rules[i].severity,
                  options |-> Range(c.rules[i].options) ] : i \in DOMAIN c.rules },
    ruleCount |-> Len(c.rules),
    settings |-> c.settings ]

\* C7: the configuration the linter loaded from .eslintrc.json equals both
\* copies of the README's ESLint listing: env, extends in order, parser,
\* parserOptions, plugins, every rule with severity and options, settings.
C7_ReadmeEslintListingIsShipped ==
  EslintLoaded =>
     /\ AsJson(eslintConfig) = AsJson(ReadmeFirstEslint)
     /\ AsJson(eslintConfig) = AsJson(ReadmeSecondEslint)

C7_Witness ==
  /\ EslintLoaded
  /\ Len(eslintConfig.rules) = 17
  /\ Len(eslintConfig.extends) = 8

C11_Original_ResolutionsAgree ==
  importSpec # "" =>
     /\ (bundlerPath # "" <=> checkerPath # "")
     /\ bundlerPath = checkerPath

\* the alias entries whose key matches the resolved specifier
MatchingKeys ==
  { i \in DOMAIN viteConfig.alias : BundlerMatches(viteConfig.alias[i].find, importSpec) }

Reverse(seq) == [i \in DOMAIN seq |-> seq[Len(seq) + 1 - i]]

\* seq with its first k entries moved to the end
Rotate(seq, k) == SubSeq(seq, k + 1, Len(seq)) \o SubSeq(seq, 1, k)

\* seq with entries k and k + 1 exchanged
SwapAt(seq, k) ==
  [i \in DOMAIN seq |-> IF i = k THEN seq[k + 1] ELSE IF i = k + 1 THEN seq[k] ELSE seq[i]]

\* declaration orders: reversed, rotated, neighbours exchanged, each reversed too
Reorderings(seq) ==
  LET base == { Rotate(seq, k) : k \in 0..(Len(seq) - 1) }
                \cup { SwapAt(seq, k) : k \in 1..(Len(seq) - 1) }
  IN  base \cup { Reverse(r) : r \in base }

\* C12: a resolved import specifier matches at most one key of resolve.alias;
\* when "@" matches it no other key does; the path the bundler resolved it to
\* is the path every other declaration order of the aliases gives.
C12_AliasMatchUnambiguous ==
  importSpec # "" =>
     /\ Cardinality(MatchingKeys) <= 1
     /\ BundlerMatches("@", importSpec) =>
          \A i \in MatchingKeys : viteConfig.alias[i].find = "@"
     /\ \A order \in Reorderings(viteConfig.alias) :
          BundlerResolve(order, importSpec) = bundlerPath

C12_Witness ==
  /\ importSpec = "@servicesTypes/x/y"
  /\ Cardinality(MatchingKeys) = 1
  /\ bundlerPath = dirname \o "/src/app/api/types/x/y"

\* the plugins the "plugin:P/<name>" entries of the loaded extends name
ExtendedPlugins ==
  { ExtendsPlugin(e) : e \in Range(eslintConfig.extends) } \ { "" }

\* C13: every "plugin:P/<name>" entry of the loaded extends names a plugin P
\* (one of react, react-hooks, @typescript-eslint, import) that the plugins
\* list of the same configuration declares.
C13_ExtendedPluginsDeclared ==
  EslintLoaded =>
     \A p \in ExtendedPlugins :
        /\ p \in Range(eslintConfig.plugins)
        /\ p \in { "react", "react-hooks", "@typescript-eslint", "import" }

C13_Witness ==
  /\ EslintLoaded
  /\ Cardinality(ExtendedPlugins) = 4
  /\ "@typescript-eslint" \in ExtendedPlugins

\* C14: the extensions of the lint command's --ext, of the format command's
\* glob and of settings import/resolver node.extensions of the loaded linter
\* configuration are all exactly .js, .jsx, .ts, .tsx.
C14_ExtensionSetsAgree ==
  EslintLoaded =>
     /\ LintExtensions(Scripts.lint) = { ".js", ".jsx", ".ts", ".tsx" }
     /\ FormatExtensions(Scripts.format) = { ".js", ".jsx", ".ts", ".tsx" }
     /\ Range(eslintConfig.settings.resolverExtensions) = { ".js", ".jsx", ".ts", ".tsx" }
     /\ running \in { "lint", "format" } =>
          LET here == IF running = "lint" THEN LintExtensions(cmds[step])
                      ELSE FormatExtensions(cmds[step])
          IN  here = Range(eslintConfig.settings.resolverExtensions)

C14_Witness ==
  /\ EslintLoaded
  /\ running = "format"
  /\ phase = "running"
  /\ FormatExtensions(cmds[step]) = Range(eslintConfig.settings.resolverExtensions)

====
